---------------------------- MODULE Spec2Model ----------------------------
(***************************************************************************)
(* Model of services/construction.go: the eight Construction API endpoints *)
(* of the Oasis Rosetta gateway.  Every endpoint is a stateless handler;   *)
(* the state of the model is the last call (request, response, the work    *)
(* the handler did) and the artifacts the caller carries from one call to  *)
(* the next (operation list, unsigned transaction, signed transaction).    *)
(*                                                                         *)
(* Text values are modelled structurally:                                  *)
(*   - a decimal amount string is a sequence of one-character strings;     *)
(*   - a JSON document is a record tagged by the field "json";             *)
(*   - canonical (CBOR) bytes are a record tagged by the field "cbor";     *)
(*   - a JSON number (float64 after decoding) is [t, num, half], standing  *)
(*     for num, or num + 1/2 when half is TRUE.                            *)
(***************************************************************************)
EXTENDS Integers, Sequences, FiniteSets, TLC

VARIABLES endpoint, request, response, trace, held

vars == <<endpoint, request, response, trace, held>>

---------------------------------------------------------------------------
(* Bounds of the model. *)

\* Longest operation list a request carries.
MaxOps == 4
\* Longest amount string a request carries.
MaxStrLen == 2
\* Largest nonce and gas number a request or the node supplies.
MaxNum == 1
\* Most signatures a combine request carries.
MaxSigs == 2

---------------------------------------------------------------------------
(* Program constants. *)

OptionsIDKey == "id"
NonceKey == "nonce"
FeeGasKey == "fee_gas"
DefaultGas == 10000
FromPlaceholder == "(from)"

\* Declared in other files of the package (services/common.go, account.go).
OpTransfer == "Transfer"
OpBurn == "Burn"
SubAccountGeneral == "general"
SubAccountEscrow == "escrow"
OasisCurrency == [Symbol |-> "ROSE", Decimals |-> "nine"]
PoolShare == [Symbol |-> "(pool share)", Decimals |-> "zero"]

\* staking and transaction method names and the signature context.
MethodTransfer == "staking.Transfer"
MethodBurn == "staking.Burn"
MethodAddEscrow == "staking.AddEscrow"
MethodReclaimEscrow == "staking.ReclaimEscrow"
SignatureContext == "oasis-core/consensus: tx"
Ed25519 == "ed25519"

\* Fixed lengths of a public key and of a raw signature (ed25519).
PublicKeySize == 32
SignatureSize == 64

\* Error kinds.
NoError == "nil"
ErrMalformedValue == "MalformedValue"
ErrNotImplemented == "NotImplemented"
ErrInvalidAccountAddress == "InvalidAccountAddress"
ErrUnableToGetNextNonce == "UnableToGetNextNonce"
ErrUnableToSubmitTx == "UnableToSubmitTx"
ErrNetwork == "NetworkValidation"

---------------------------------------------------------------------------
(* math/big and quantity: decimal text <-> arbitrary-precision integers. *)

DigitChars == <<"0", "1", "2", "3", "4", "5", "6", "7", "8", "9">>

IsDigit(c) == \E i \in 1..Len(DigitChars) : DigitChars[i] = c

DigitVal(c) == (CHOOSE i \in 1..Len(DigitChars) : DigitChars[i] = c) - 1

RECURSIVE ScanDigits(_, _, _)
\* Value of the digit string s in the given base, acc being the value of the
\* digits already read; -1 when a character is no digit of the base.
ScanDigits(s, base, acc) ==
    IF s = <<>> THEN acc
    ELSE IF ~IsDigit(Head(s)) \/ DigitVal(Head(s)) >= base THEN -1
    ELSE ScanDigits(Tail(s), base, acc * base + DigitVal(Head(s)))

\* nat.scan with base 0 on the characters after the sign: a leading "0"
\* followed by more characters selects base 8, otherwise base 10.
ScanNat(s) ==
    IF s = <<>> THEN -1
    ELSE IF Head(s) = "0" /\ Len(s) > 1 THEN ScanDigits(Tail(s), 8, 0)
    ELSE ScanDigits(s, 10, 0)

\* big.Int.UnmarshalText: optional sign, then a number in base 0; the whole
\* text must be consumed.
BigIntUnmarshalText(text) ==
    LET signed == text # <<>> /\ Head(text) \in {"+", "-"}
        mag == ScanNat(IF signed THEN Tail(text) ELSE text)
    IN  IF mag < 0 THEN [ok |-> FALSE, val |-> 0]
        ELSE [ok |-> TRUE,
              val |-> IF signed /\ Head(text) = "-" THEN 0 - mag ELSE mag]

RECURSIVE NatString(_)
\* Decimal digits of a natural number, no leading zeros.
NatString(n) ==
    IF n < 10 THEN <<DigitChars[n + 1]>>
    ELSE NatString(n \div 10) \o <<DigitChars[(n % 10) + 1]>>

\* quantity.Quantity.String (a quantity is never negative).
QuantityString(q) == NatString(q)

\* quantity.Quantity.FromBigInt: rejects a negative value.
QuantityFromBigInt(bi) ==
    IF bi < 0 THEN [ok |-> FALSE, q |-> 0] ELSE [ok |-> TRUE, q |-> bi]

\* quantity.Quantity.UnmarshalText, used when a transaction is read back
\* from its JSON form.
QuantityUnmarshalText(text) ==
    LET bi == BigIntUnmarshalText(text)
    IN  IF ~bi.ok THEN [ok |-> FALSE, q |-> 0] ELSE QuantityFromBigInt(bi.val)

---------------------------------------------------------------------------
(* staking.Address and signature.PublicKey. *)

\* Binary addresses: the zero value and the addresses of the two keys.
ZeroAddress == "addr:zero"
Keys == {"keyA", "keyB"}
NewAddress(pk) == IF pk.key = "keyA" THEN "addr:A" ELSE "addr:B"
Addresses == {ZeroAddress, "addr:A", "addr:B"}

\* staking.Address.String: the bech32 text of a binary address.
AddressString(a) ==
    CASE a = "addr:A" -> "oasis1qa"
      [] a = "addr:B" -> "oasis1qb"
      [] OTHER -> "oasis1qqqq"

\* staking.Address.UnmarshalText: fails on text that is no address and
\* then leaves the receiver at its zero value.
AddressUnmarshalText(text) ==
    IF \E a \in Addresses : AddressString(a) = text
    THEN [ok |-> TRUE, addr |-> CHOOSE a \in Addresses : AddressString(a) = text]
    ELSE [ok |-> FALSE, addr |-> ZeroAddress]

\* Byte strings are modelled by their length and their content.
\* signature.PublicKey.UnmarshalBinary and RawSignature.UnmarshalBinary
\* accept exactly the fixed length.
PublicKeyUnmarshalBinary(bytes) == bytes.len = PublicKeySize
RawSignatureUnmarshalBinary(bytes) == bytes.len = SignatureSize

---------------------------------------------------------------------------
(* JSON numbers. *)

JNumber(n) == [t |-> "number", num |-> n, half |-> FALSE, str |-> ""]
JHalf(n) == [t |-> "number", num |-> n, half |-> TRUE, str |-> ""]
JString(s) == [t |-> "string", num |-> 0, half |-> FALSE, str |-> s]

\* uint64(f) of a non-negative float64: truncation.
F64ToU64(v) == v.num

NoMap == [k \in {} |-> JNumber(0)]
MapOf(key, v) == [k \in {key} |-> v]

---------------------------------------------------------------------------
(* Transactions and their two encodings. *)

NoFee == [present |-> FALSE, amount |-> 0, gas |-> 0]
Fee(amount, gas) == [present |-> TRUE, amount |-> amount, gas |-> gas]
NoBody == [cbor |-> "nil"]
ZeroTx == [nonce |-> 0, fee |-> NoFee, method |-> "", body |-> NoBody]

\* cbor.Marshal of a method body.
CBORTransfer(to, tokens) == [cbor |-> "Transfer", to |-> to, tokens |-> tokens]
CBORBurn(tokens) == [cbor |-> "Burn", tokens |-> tokens]
CBOREscrow(account, tokens) ==
    [cbor |-> "Escrow", account |-> account, tokens |-> tokens]
CBORReclaimEscrow(account, shares) ==
    [cbor |-> "ReclaimEscrow", account |-> account, shares |-> shares]

\* cbor.Unmarshal of a body into the struct a method expects.
CBORUnmarshalBody(body, kind) == body.cbor = kind

\* cbor.Marshal(tx): the canonical bytes that are signed.
CBORMarshalTx(tx) == [cbor |-> "Transaction", tx |-> tx]

\* cbor.Unmarshal(blob, &tx).
CBORUnmarshalTx(blob) ==
    IF blob.cbor = "Transaction" THEN [ok |-> TRUE, tx |-> blob.tx]
    ELSE [ok |-> FALSE, tx |-> ZeroTx]

\* json.Marshal(tx): the fee amount travels as decimal text.
JSONMarshalTx(tx) ==
    [json |-> "Transaction",
     nonce |-> tx.nonce,
     fee |-> IF tx.fee.present
             THEN [present |-> TRUE, amount |-> QuantityString(tx.fee.amount),
                   gas |-> tx.fee.gas]
             ELSE [present |-> FALSE, amount |-> <<>>, gas |-> 0],
     method |-> tx.method,
     body |-> tx.body]

\* A text that is not JSON, and the JSON object without fields.
InvalidJSON == [json |-> "invalid"]
EmptyJSON == [json |-> "object"]

\* json.Unmarshal(text, &tx): fails on text that is not JSON or whose
\* fields do not decode; an object with none of the fields of a transaction
\* gives the zero transaction.
JSONUnmarshalTx(doc) ==
    IF doc.json = "invalid" THEN [ok |-> FALSE, tx |-> ZeroTx]
    ELSE IF doc.json # "Transaction" THEN [ok |-> TRUE, tx |-> ZeroTx]
    ELSE IF ~doc.fee.present
         THEN [ok |-> TRUE,
               tx |-> [nonce |-> doc.nonce, fee |-> NoFee,
                       method |-> doc.method, body |-> doc.body]]
    ELSE LET q == QuantityUnmarshalText(doc.fee.amount)
         IN  IF ~q.ok THEN [ok |-> FALSE, tx |-> ZeroTx]
             ELSE [ok |-> TRUE,
                   tx |-> [nonce |-> doc.nonce, fee |-> Fee(q.q, doc.fee.gas),
                           method |-> doc.method, body |-> doc.body]]


\* A signer message that leaves the context out.
PrepareSignerMessageBare(context, message) ==
    [context |-> "", message |-> message]

\* signature.PrepareSignerMessage: the context prepended to the message.
PrepareSignerMessage(context, message) ==
    [context |-> context, message |-> message]

\* A raw signature made with a key over a message, and its verification
\* (signature.Signature.Verify): it verifies only under the key that made
\* it and only over the context and message it was made over.
Sign(key, message) ==
    [len |-> SignatureSize, signer |-> key, message |-> message]

Verify(pk, context, blob, sig) ==
    /\ sig.signer = pk.key
    /\ sig.message = PrepareSignerMessage(context, blob)

PublicKey(key) == [len |-> PublicKeySize, key |-> key]
ZeroPublicKey == [len |-> PublicKeySize, key |-> "zero"]
ZeroSignature ==
    [len |-> SignatureSize, signer |-> "none",
     message |-> PrepareSignerMessage("", NoBody)]
ZeroSigned ==
    [blob |-> NoBody, public_key |-> ZeroPublicKey, signature |-> ZeroSignature]

\* json.Marshal(st) of a transaction.SignedTransaction.
JSONMarshalSigned(st) ==
    [json |-> "SignedTransaction",
     untrusted_raw_value |-> st.blob,
     signature |-> [public_key |-> st.public_key, signature |-> st.signature]]

\* json.Unmarshal(text, &st): an object with none of the fields of a signed
\* transaction gives the zero value.
JSONUnmarshalSigned(doc) ==
    IF doc.json = "invalid" THEN [ok |-> FALSE, st |-> ZeroSigned]
    ELSE IF doc.json # "SignedTransaction" THEN [ok |-> TRUE, st |-> ZeroSigned]
    ELSE [ok |-> TRUE,
          st |-> [blob |-> doc.untrusted_raw_value,
                  public_key |-> doc.signature.public_key,
                  signature |-> doc.signature.signature]]

\* An open that decodes the blob without verifying the signature.
OpenUnverified(st) == CBORUnmarshalTx(st.blob)

\* transaction.SignedTransaction.Open: verify, then decode the blob.
Open(st) ==
    IF ~Verify(st.public_key, SignatureContext, st.blob, st.signature)
    THEN [ok |-> FALSE, tx |-> ZeroTx]
    ELSE CBORUnmarshalTx(st.blob)

\* hash.Hash.From(st).String(): the hash of the canonical bytes of st.
HashFrom(st) == [hash |-> "sha512_256", of |-> st]

---------------------------------------------------------------------------
(* Operations. *)

NoSubAccount == [present |-> FALSE, address |-> ""]
SubAccount(a) == [present |-> TRUE, address |-> a]

Op(i, type, address, sub, value, currency, metadata) ==
    [operation_identifier |-> [index |-> i],
     type |-> type,
     account |-> [address |-> address, sub_account |-> sub],
     amount |-> [value |-> value, currency |-> currency],
     metadata |-> metadata]

\* The configured network, and the outcome of its validation
\* (ValidateNetworkIdentifier lives in services/common.go).
OasisNetwork == [blockchain |-> "Oasis", network |-> "chain"]
OtherNetwork == [blockchain |-> "Oasis", network |-> "other"]

ValidateNetworkIdentifier(ni) ==
    IF ni = OasisNetwork THEN NoError ELSE ErrNetwork

\* What a handler returns: its response and the work it did, in order:
\* "validate" (the network identifier), "decode" (reading its input),
\* "GetNextNonce" and "SubmitTx" (calls to the node).
Fail(e, work) == [resp |-> [err |-> e], work |-> work]

---------------------------------------------------------------------------
(* readCurrency and its three callers. *)

readCurrency(amount, currency, negative) ==
    IF amount.currency.Symbol # currency.Symbol THEN [ok |-> FALSE, q |-> 0]
    ELSE LET bi == BigIntUnmarshalText(amount.value)
         IN  IF ~bi.ok THEN [ok |-> FALSE, q |-> 0]
             ELSE QuantityFromBigInt(IF negative THEN 0 - bi.val ELSE bi.val)

readOasisCurrency(amount) == readCurrency(amount, OasisCurrency, FALSE)

readOasisCurrencyNeg(amount) == readCurrency(amount, OasisCurrency, TRUE)

\* A reading of the reclaimed amount in the native token.
readPoolShareNegAsOasis(amount) == readCurrency(amount, OasisCurrency, TRUE)

readPoolShareNeg(amount) == readCurrency(amount, PoolShare, TRUE)

---------------------------------------------------------------------------
(* ConstructionPayloads.  request.Operations[i] of the source is ops[i+1]. *)

\* One case of the switch: the operation has the type and carries the
\* sub-account tag.
IsOp(op, type, sub) ==
    /\ op.type = type
    /\ op.account.sub_account.present
    /\ op.account.sub_account.address = sub

MatchTransfer(ops) ==
    /\ Len(ops) = 3
    /\ IsOp(ops[2], OpTransfer, SubAccountGeneral)
    /\ IsOp(ops[3], OpTransfer, SubAccountGeneral)

\* A two-operation match that takes any operation on a general account
\* for a burn, whatever its type.
MatchBurnAnyType(ops) ==
    /\ Len(ops) = 2
    /\ ops[2].account.sub_account = SubAccount(SubAccountGeneral)

MatchBurn(ops) ==
    /\ Len(ops) = 2
    /\ IsOp(ops[2], OpBurn, SubAccountGeneral)

MatchAddEscrow(ops) ==
    /\ Len(ops) = 3
    /\ IsOp(ops[2], OpTransfer, SubAccountGeneral)
    /\ IsOp(ops[3], OpTransfer, SubAccountEscrow)

MatchReclaimEscrow(ops) ==
    /\ Len(ops) = 2
    /\ IsOp(ops[2], OpTransfer, SubAccountEscrow)

\* What a case of the switch leaves behind: an error, or method and body.
BodyFail(e) == [err |-> e, method |-> "", body |-> NoBody]
BodyOK(method, body) == [err |-> NoError, method |-> method, body |-> body]

\* case transfer.  A failure of to.UnmarshalText is logged and the zero
\* address is used.
PayloadsTransfer(ops, signWithAddr) ==
    IF ops[2].account.address # signWithAddr THEN BodyFail(ErrMalformedValue)
    ELSE LET amount == readOasisCurrencyNeg(ops[2].amount)
             to == AddressUnmarshalText(ops[3].account.address)
             amount2 == readOasisCurrency(ops[3].amount)
         IN  IF ~amount.ok THEN BodyFail(ErrMalformedValue)
             ELSE IF ~amount2.ok THEN BodyFail(ErrMalformedValue)
             ELSE IF amount.q # amount2.q THEN BodyFail(ErrMalformedValue)
             ELSE BodyOK(MethodTransfer, CBORTransfer(to.addr, amount.q))

\* case burn.
PayloadsBurn(ops, signWithAddr) ==
    IF ops[2].account.address # signWithAddr THEN BodyFail(ErrMalformedValue)
    ELSE LET amount == readOasisCurrencyNeg(ops[2].amount)
         IN  IF ~amount.ok THEN BodyFail(ErrMalformedValue)
             ELSE BodyOK(MethodBurn, CBORBurn(amount.q))

\* An add escrow that reads the two amounts and does not compare them.
PayloadsAddEscrowNoCompare(ops, signWithAddr) ==
    IF ops[2].account.address # signWithAddr THEN BodyFail(ErrMalformedValue)
    ELSE LET amount == readOasisCurrencyNeg(ops[2].amount)
             escrowAccount == AddressUnmarshalText(ops[3].account.address)
             amount2 == readOasisCurrency(ops[3].amount)
         IN  IF ~amount.ok THEN BodyFail(ErrMalformedValue)
             ELSE IF ~amount2.ok THEN BodyFail(ErrMalformedValue)
             ELSE BodyOK(MethodAddEscrow,
                         CBOREscrow(escrowAccount.addr, amount.q))

\* case add escrow.  A failure of escrowAccount.UnmarshalText is logged and
\* the zero address is used.
PayloadsAddEscrow(ops, signWithAddr) ==
    IF ops[2].account.address # signWithAddr THEN BodyFail(ErrMalformedValue)
    ELSE LET amount == readOasisCurrencyNeg(ops[2].amount)
             escrowAccount == AddressUnmarshalText(ops[3].account.address)
             amount2 == readOasisCurrency(ops[3].amount)
         IN  IF ~amount.ok THEN BodyFail(ErrMalformedValue)
             ELSE IF ~amount2.ok THEN BodyFail(ErrMalformedValue)
             ELSE IF amount.q # amount2.q THEN BodyFail(ErrMalformedValue)
             ELSE BodyOK(MethodAddEscrow,
                         CBOREscrow(escrowAccount.addr, amount.q))

\* A reclaim escrow that compares the escrow account with the signer, as
\* the other cases compare their debit.
PayloadsReclaimEscrowOfSigner(ops, signWithAddr) ==
    IF ops[2].account.address # signWithAddr THEN BodyFail(ErrMalformedValue)
    ELSE LET escrowAccount == AddressUnmarshalText(ops[2].account.address)
             amount == readPoolShareNeg(ops[2].amount)
         IN  IF ~amount.ok THEN BodyFail(ErrMalformedValue)
             ELSE BodyOK(MethodReclaimEscrow,
                         CBORReclaimEscrow(escrowAccount.addr, amount.q))

\* case reclaim escrow.  No comparison with the signer; a failure of
\* escrowAccount.UnmarshalText is logged and the zero address is used.
PayloadsReclaimEscrow(ops, signWithAddr) ==
    LET escrowAccount == AddressUnmarshalText(ops[2].account.address)
        amount == readPoolShareNeg(ops[2].amount)
    IN  IF ~amount.ok THEN BodyFail(ErrMalformedValue)
        ELSE BodyOK(MethodReclaimEscrow,
                    CBORReclaimEscrow(escrowAccount.addr, amount.q))

\* The switch over the shape of the operation list.
PayloadsSwitch(ops, signWithAddr) ==
    CASE MatchTransfer(ops) -> PayloadsTransfer(ops, signWithAddr)
      [] MatchBurn(ops) -> PayloadsBurn(ops, signWithAddr)
      [] MatchAddEscrow(ops) -> PayloadsAddEscrow(ops, signWithAddr)
      [] MatchReclaimEscrow(ops) -> PayloadsReclaimEscrow(ops, signWithAddr)
      [] OTHER -> BodyFail(ErrNotImplemented)

\* The count test of ConstructionPreprocess (at least one operation)
\* in the place of the one of ConstructionPayloads.
TooFewOperationsForPreprocess(ops) == Len(ops) < 1

\* The guard on the length of the operation list.
TooFewOperations(ops) == Len(ops) < 2

\* The fee operation's checks: type, sub-account, amount, gas.
FeeOpError(feeOp) ==
    \/ feeOp.type # OpTransfer
    \/ ~feeOp.account.sub_account.present
    \/ feeOp.account.sub_account.address # SubAccountGeneral
    \/ ~readOasisCurrencyNeg(feeOp.amount).ok
    \/ /\ FeeGasKey \in DOMAIN feeOp.metadata
       /\ feeOp.metadata[FeeGasKey].t # "number"

\* A fee gas without default: no gas when the metadata gives none.
FeeGasOfNoDefault(feeOp) ==
    IF FeeGasKey \in DOMAIN feeOp.metadata
    THEN F64ToU64(feeOp.metadata[FeeGasKey])
    ELSE 0

FeeGasOf(feeOp) ==
    IF FeeGasKey \in DOMAIN feeOp.metadata
    THEN F64ToU64(feeOp.metadata[FeeGasKey])
    ELSE DefaultGas

\* Everything after network validation.
PayloadsBody(req) ==
    LET ops == req.operations
        md == req.metadata
        work == <<"validate", "decode">>
    IN  IF NonceKey \notin DOMAIN md THEN Fail(ErrMalformedValue, work)
        ELSE IF md[NonceKey].t # "number" THEN Fail(ErrMalformedValue, work)
        ELSE IF TooFewOperations(ops) THEN Fail(ErrMalformedValue, work)
        ELSE IF FeeOpError(ops[1]) THEN Fail(ErrMalformedValue, work)
        ELSE LET nonce == F64ToU64(md[NonceKey])
                 signWithAddr == ops[1].account.address
                 feeAmount == readOasisCurrencyNeg(ops[1].amount)
                 sw == PayloadsSwitch(ops, signWithAddr)
                 tx == [nonce |-> nonce,
                        fee |-> Fee(feeAmount.q, FeeGasOf(ops[1])),
                        method |-> sw.method,
                        body |-> sw.body]
             IN  IF sw.err # NoError THEN Fail(sw.err, work)
                 ELSE [resp |->
                         [err |-> NoError,
                          unsigned_transaction |-> JSONMarshalTx(tx),
                          payloads |->
                            <<[address |-> signWithAddr,
                               bytes |-> PrepareSignerMessage(
                                            SignatureContext, CBORMarshalTx(tx)),
                               signature_type |-> Ed25519]>>],
                       work |-> work]

ConstructionPayloads(req) ==
    IF ValidateNetworkIdentifier(req.network_identifier) # NoError
    THEN Fail(ValidateNetworkIdentifier(req.network_identifier), <<"validate">>)
    ELSE PayloadsBody(req)

---------------------------------------------------------------------------
(* ConstructionParse. *)

\* A fee operation that names the placeholder whoever signed.
ParseFeeOpPlaceholder(tx, from) ==
    Op(0, OpTransfer, FromPlaceholder, SubAccount(SubAccountGeneral),
       IF tx.fee.present THEN <<"-">> \o QuantityString(tx.fee.amount)
       ELSE <<"-", "0">>,
       OasisCurrency,
       MapOf(FeeGasKey, JNumber(IF tx.fee.present THEN tx.fee.gas ELSE 0)))

\* Operation 0 of every parsed transaction.
ParseFeeOp(tx, from) ==
    Op(0, OpTransfer, from, SubAccount(SubAccountGeneral),
       IF tx.fee.present THEN <<"-">> \o QuantityString(tx.fee.amount)
       ELSE <<"-", "0">>,
       OasisCurrency,
       MapOf(FeeGasKey, JNumber(IF tx.fee.present THEN tx.fee.gas ELSE 0)))

\* The operations after the fee, by method; the body is known to decode.
ParseMethodOps(tx, from) ==
    CASE tx.method = MethodTransfer ->
           <<Op(1, OpTransfer, from, SubAccount(SubAccountGeneral),
                <<"-">> \o QuantityString(tx.body.tokens), OasisCurrency, NoMap),
             Op(2, OpTransfer, AddressString(tx.body.to),
                SubAccount(SubAccountGeneral),
                QuantityString(tx.body.tokens), OasisCurrency, NoMap)>>
      [] tx.method = MethodBurn ->
           <<Op(1, OpBurn, from, SubAccount(SubAccountGeneral),
                <<"-">> \o QuantityString(tx.body.tokens), OasisCurrency, NoMap)>>
      [] tx.method = MethodAddEscrow ->
           <<Op(1, OpTransfer, from, SubAccount(SubAccountGeneral),
                <<"-">> \o QuantityString(tx.body.tokens), OasisCurrency, NoMap),
             Op(2, OpTransfer, AddressString(tx.body.account),
                SubAccount(SubAccountEscrow),
                QuantityString(tx.body.tokens), OasisCurrency, NoMap)>>
      [] tx.method = MethodReclaimEscrow ->
           <<Op(1, OpTransfer, AddressString(tx.body.account),
                SubAccount(SubAccountEscrow),
                <<"-">> \o QuantityString(tx.body.shares), PoolShare, NoMap)>>

\* The struct each method's body must decode into.
BodyKind(method) ==
    CASE method = MethodTransfer -> "Transfer"
      [] method = MethodBurn -> "Burn"
      [] method = MethodAddEscrow -> "Escrow"
      [] method = MethodReclaimEscrow -> "ReclaimEscrow"
      [] OTHER -> "none"

\* The switch over tx.Method and the response.
ParseTx(tx, from, signers, work) ==
    IF BodyKind(tx.method) = "none" THEN Fail(ErrNotImplemented, work)
    ELSE IF ~CBORUnmarshalBody(tx.body, BodyKind(tx.method))
         THEN Fail(ErrMalformedValue, work)
    ELSE [resp |-> [err |-> NoError,
                    operations |-> <<ParseFeeOp(tx, from)>>
                                     \o ParseMethodOps(tx, from),
                    signers |-> signers,
                    metadata |-> MapOf(NonceKey, JNumber(tx.nonce))],
          work |-> work]

\* Everything after network validation.
ParseBody(req) ==
    LET work == <<"validate", "decode">>
    IN  IF req.signed
        THEN LET st == JSONUnmarshalSigned(req.transaction)
                 opened == Open(st.st)
                 from == AddressString(NewAddress(st.st.public_key))
             IN  IF ~st.ok THEN Fail(ErrMalformedValue, work)
                 ELSE IF ~opened.ok THEN Fail(ErrMalformedValue, work)
                 ELSE ParseTx(opened.tx, from, <<from>>, work)
        ELSE LET tx == JSONUnmarshalTx(req.transaction)
             IN  IF ~tx.ok THEN Fail(ErrMalformedValue, work)
                 ELSE ParseTx(tx.tx, FromPlaceholder, <<>>, work)

ConstructionParse(req) ==
    IF ValidateNetworkIdentifier(req.network_identifier) # NoError
    THEN Fail(ValidateNetworkIdentifier(req.network_identifier), <<"validate">>)
    ELSE ParseBody(req)

---------------------------------------------------------------------------
(* ConstructionMetadata.  req.node is what the node answers to GetNextNonce *)
(* if it is asked.                                                          *)

\* A metadata that asks the node a second time when the lookup fails.
MetadataBodyRetrying(req) ==
    LET work == <<"validate", "decode">>
        opts == req.options
    IN  IF ~opts.present THEN Fail(ErrInvalidAccountAddress, work)
        ELSE IF OptionsIDKey \notin DOMAIN opts.map
             THEN Fail(ErrInvalidAccountAddress, work)
        ELSE IF opts.map[OptionsIDKey].t # "string"
             THEN Fail(ErrInvalidAccountAddress, work)
        ELSE IF ~AddressUnmarshalText(opts.map[OptionsIDKey].str).ok
             THEN Fail(ErrInvalidAccountAddress, work)
        ELSE IF ~req.node.ok
             THEN Fail(ErrUnableToGetNextNonce,
                       work \o <<"GetNextNonce", "GetNextNonce">>)
        ELSE [resp |-> [err |-> NoError,
                        metadata |-> MapOf(NonceKey, JNumber(req.node.nonce))],
              work |-> Append(work, "GetNextNonce")]

MetadataBody(req) ==
    LET work == <<"validate", "decode">>
        opts == req.options
    IN  IF ~opts.present THEN Fail(ErrInvalidAccountAddress, work)
        ELSE IF OptionsIDKey \notin DOMAIN opts.map
             THEN Fail(ErrInvalidAccountAddress, work)
        ELSE IF opts.map[OptionsIDKey].t # "string"
             THEN Fail(ErrInvalidAccountAddress, work)
        ELSE IF ~AddressUnmarshalText(opts.map[OptionsIDKey].str).ok
             THEN Fail(ErrInvalidAccountAddress, work)
        ELSE IF ~req.node.ok
             THEN Fail(ErrUnableToGetNextNonce, Append(work, "GetNextNonce"))
        ELSE [resp |-> [err |-> NoError,
                        metadata |-> MapOf(NonceKey, JNumber(req.node.nonce))],
              work |-> Append(work, "GetNextNonce")]

ConstructionMetadata(req) ==
    IF ValidateNetworkIdentifier(req.network_identifier) # NoError
    THEN Fail(ValidateNetworkIdentifier(req.network_identifier), <<"validate">>)
    ELSE MetadataBody(req)

---------------------------------------------------------------------------
(* ConstructionSubmit.  req.node is what the node answers to SubmitTx.      *)

\* SubmitTx comes first, the decoding of the signed transaction after it.
SubmitBody(req) ==
    LET st == JSONUnmarshalSigned(req.signed_transaction)
    IN  IF ~req.node.ok
        THEN Fail(ErrUnableToSubmitTx, <<"validate", "SubmitTx">>)
        ELSE IF ~st.ok
             THEN Fail(ErrMalformedValue, <<"validate", "SubmitTx", "decode">>)
        ELSE [resp |-> [err |-> NoError,
                        transaction_identifier |-> HashFrom(st.st)],
              work |-> <<"validate", "SubmitTx", "decode">>]

\* A submit that asks the node first and looks at the network after.
ConstructionSubmitLate(req) ==
    IF ~req.node.ok THEN SubmitBody(req)
    ELSE IF ValidateNetworkIdentifier(req.network_identifier) # NoError
    THEN Fail(ValidateNetworkIdentifier(req.network_identifier),
              <<"SubmitTx", "validate">>)
    ELSE SubmitBody(req)

ConstructionSubmit(req) ==
    IF ValidateNetworkIdentifier(req.network_identifier) # NoError
    THEN Fail(ValidateNetworkIdentifier(req.network_identifier), <<"validate">>)
    ELSE SubmitBody(req)

---------------------------------------------------------------------------
(* ConstructionHash. *)

HashBody(req) ==
    LET st == JSONUnmarshalSigned(req.signed_transaction)
        work == <<"validate", "decode">>
    IN  IF ~st.ok THEN Fail(ErrMalformedValue, work)
        ELSE [resp |-> [err |-> NoError, transaction_hash |-> HashFrom(st.st)],
              work |-> work]

ConstructionHash(req) ==
    IF ValidateNetworkIdentifier(req.network_identifier) # NoError
    THEN Fail(ValidateNetworkIdentifier(req.network_identifier), <<"validate">>)
    ELSE HashBody(req)

---------------------------------------------------------------------------
(* ConstructionDerive. *)

DeriveBody(req) ==
    LET work == <<"validate", "decode">>
    IN  IF ~PublicKeyUnmarshalBinary(req.public_key)
        THEN Fail(ErrMalformedValue, work)
        ELSE [resp |-> [err |-> NoError,
                        address |-> AddressString(NewAddress(req.public_key))],
              work |-> work]

ConstructionDerive(req) ==
    IF ValidateNetworkIdentifier(req.network_identifier) # NoError
    THEN Fail(ValidateNetworkIdentifier(req.network_identifier), <<"validate">>)
    ELSE DeriveBody(req)

---------------------------------------------------------------------------
(* ConstructionCombine.  A signature of the request is                      *)
(* [public_key |-> bytes, bytes |-> bytes].                                 *)

\* A count test that lets several signatures through and uses the first.
SignaturesAtLeastOne(n) == n >= 1

\* The number of signatures a request must carry.
SignaturesNeeded(n) == n = 1

CombineBody(req) ==
    LET work == <<"validate", "decode">>
        tx == JSONUnmarshalTx(req.unsigned_transaction)
        txBuf == CBORMarshalTx(tx.tx)
        sig == req.signatures[1]
    IN  IF ~tx.ok THEN Fail(ErrMalformedValue, work)
        ELSE IF ~SignaturesNeeded(Len(req.signatures))
             THEN Fail(ErrMalformedValue, work)
        ELSE IF ~PublicKeyUnmarshalBinary(sig.public_key)
             THEN Fail(ErrMalformedValue, work)
        ELSE IF ~RawSignatureUnmarshalBinary(sig.bytes)
             THEN Fail(ErrMalformedValue, work)
        ELSE [resp |->
                [err |-> NoError,
                 signed_transaction |->
                   JSONMarshalSigned([blob |-> txBuf,
                                      public_key |-> sig.public_key,
                                      signature |-> sig.bytes])],
              work |-> work]

ConstructionCombine(req) ==
    IF ValidateNetworkIdentifier(req.network_identifier) # NoError
    THEN Fail(ValidateNetworkIdentifier(req.network_identifier), <<"validate">>)
    ELSE CombineBody(req)

---------------------------------------------------------------------------
(* ConstructionPreprocess. *)

PreprocessBody(req) ==
    LET work == <<"validate", "decode">>
    IN  IF Len(req.operations) < 1 THEN Fail(ErrMalformedValue, work)
        ELSE [resp |->
                [err |-> NoError,
                 options |->
                   [present |-> TRUE,
                    map |-> MapOf(OptionsIDKey,
                                  JString(req.operations[1].account.address))]],
              work |-> work]

ConstructionPreprocess(req) ==
    IF ValidateNetworkIdentifier(req.network_identifier) # NoError
    THEN Fail(ValidateNetworkIdentifier(req.network_identifier), <<"validate">>)
    ELSE PreprocessBody(req)

---------------------------------------------------------------------------
(* The requests of the model. *)

Networks == {OasisNetwork, OtherNetwork}
AddrA == AddressString("addr:A")
AddrB == AddressString("addr:B")
\* Two well-formed address texts and one that is no address.
AddressTexts == {AddrA, AddrB, "not-an-address"}
Currencies == {OasisCurrency, PoolShare}
\* The two currencies, and each symbol with the other's decimals.
AnyCurrencies ==
    {[Symbol |-> c.Symbol, Decimals |-> d.Decimals] : c, d \in Currencies}
Types == {OpTransfer, OpBurn}
SubAccounts ==
    {NoSubAccount, SubAccount(SubAccountGeneral), SubAccount(SubAccountEscrow)}

AmountAlphabet == {"-", "0", "1"}

RECURSIVE StringsOfLen(_)
StringsOfLen(n) ==
    IF n = 0 THEN {<<>>}
    ELSE {<<c>> \o t : c \in AmountAlphabet, t \in StringsOfLen(n - 1)}

\* Every amount string of at most MaxStrLen characters over the alphabet,
\* and one with an explicit plus sign.
AmountStrings ==
    UNION {StringsOfLen(n) : n \in 0..MaxStrLen} \cup {<<"+", "1">>}

Numbers == 0..MaxNum
GasMaps ==
    {NoMap, MapOf(FeeGasKey, JString("1"))}
        \cup {MapOf(FeeGasKey, JNumber(n)) : n \in Numbers}
        \cup {MapOf(FeeGasKey, JHalf(n)) : n \in Numbers}
NonceMaps ==
    {NoMap, MapOf(NonceKey, JString("1"))}
        \cup {MapOf(NonceKey, JNumber(n)) : n \in Numbers}
        \cup {MapOf(NonceKey, JHalf(n)) : n \in Numbers}

Minus1 == <<"-", "1">>
Plus1 == <<"1">>

FeeOp(type, address, sub, value, currency, metadata) ==
    Op(0, type, address, sub, value, currency, metadata)

GoodFee ==
    FeeOp(OpTransfer, AddrA, SubAccount(SubAccountGeneral), Minus1,
          OasisCurrency, MapOf(FeeGasKey, JNumber(MaxNum)))

Patterns == {"transfer", "burn", "add_escrow", "reclaim_escrow"}

\* An operation list of the shape of a pattern with the given fee
\* operation, addresses, amount values and currencies.
PatternOps(p, fee, a1, v1, c1, a2, v2, c2) ==
    CASE p = "transfer" ->
           <<fee,
             Op(1, OpTransfer, a1, SubAccount(SubAccountGeneral), v1, c1, NoMap),
             Op(2, OpTransfer, a2, SubAccount(SubAccountGeneral), v2, c2, NoMap)>>
      [] p = "burn" ->
           <<fee,
             Op(1, OpBurn, a1, SubAccount(SubAccountGeneral), v1, c1, NoMap)>>
      [] p = "add_escrow" ->
           <<fee,
             Op(1, OpTransfer, a1, SubAccount(SubAccountGeneral), v1, c1, NoMap),
             Op(2, OpTransfer, a2, SubAccount(SubAccountEscrow), v2, c2, NoMap)>>
      [] p = "reclaim_escrow" ->
           <<fee,
             Op(1, OpTransfer, a1, SubAccount(SubAccountEscrow), v1, c1, NoMap)>>

DebitCurrency(p) == IF p = "reclaim_escrow" THEN PoolShare ELSE OasisCurrency

\* The four lists the scenarios of the specification use.
GoodLists ==
    {PatternOps(p, GoodFee, AddrA, Minus1, DebitCurrency(p), AddrB, Plus1,
                OasisCurrency) : p \in Patterns}

\* Operation i of a list that varies only in shape.
ShapeOps(i) ==
    {Op(i, t, IF i = 1 THEN AddrA ELSE AddrB, sub,
        IF i = 1 THEN Minus1 ELSE Plus1, c, NoMap) :
       t \in Types, sub \in SubAccounts,
       c \in IF i = 1 THEN Currencies ELSE {OasisCurrency}}

RECURSIVE ShapeTails(_, _)
\* The lists of operations i..n that vary only in shape.
ShapeTails(i, n) ==
    IF i > n THEN {<<>>}
    ELSE {<<o>> \o t : o \in ShapeOps(i), t \in ShapeTails(i + 1, n)}

\* Lists of every length up to MaxOps and every shape.
ShapeLists ==
    {<<>>} \cup UNION {{<<GoodFee>> \o t : t \in ShapeTails(1, n)} :
                         n \in 0..(MaxOps - 1)}

\* The four shapes with every amount string and currency after the fee.
AmountLists ==
    {PatternOps(p, GoodFee, AddrA, v1, c1, AddrB, v2, c2) :
       p \in Patterns, v1 \in AmountStrings, v2 \in AmountStrings,
       c1 \in Currencies, c2 \in Currencies}

\* The four shapes with every address text in the three operations.
AddressLists ==
    {PatternOps(p,
                FeeOp(OpTransfer, af, SubAccount(SubAccountGeneral), Minus1,
                      OasisCurrency, MapOf(FeeGasKey, JNumber(MaxNum))),
                a1, Minus1, DebitCurrency(p), a2, v2, OasisCurrency) :
       p \in Patterns, af \in AddressTexts, a1 \in AddressTexts,
       a2 \in AddressTexts, v2 \in {Plus1, <<"-">>}}

\* The four shapes with every fee amount, currency and gas metadata, and
\* with every fee type and sub-account.
FeeLists ==
    {PatternOps(p,
                FeeOp(OpTransfer, AddrA, SubAccount(SubAccountGeneral), v, c, md),
                AddrA, Minus1, DebitCurrency(p), AddrB, Plus1, OasisCurrency) :
       p \in Patterns, v \in AmountStrings, c \in Currencies, md \in GasMaps}
    \cup
    {PatternOps(p, FeeOp(t, AddrA, sub, Minus1, OasisCurrency, NoMap),
                AddrA, Minus1, DebitCurrency(p), AddrB, Plus1, OasisCurrency) :
       p \in Patterns, t \in Types, sub \in SubAccounts}

\* The four shapes with every currency, also the ones that agree with an
\* expected currency in the symbol alone.
CurrencyLists ==
    {PatternOps(p,
                FeeOp(OpTransfer, AddrA, SubAccount(SubAccountGeneral), Minus1,
                      cf, NoMap),
                AddrA, Minus1, c1, AddrB, Plus1, c2) :
       p \in Patterns, cf \in AnyCurrencies, c1 \in AnyCurrencies,
       c2 \in AnyCurrencies}

OperationLists ==
    ShapeLists \cup AmountLists \cup AddressLists \cup FeeLists
        \cup CurrencyLists

\* The payloads requests: every list with a good nonce, and the good lists
\* with every nonce metadata.
PayloadsInputs ==
    {[operations |-> ops, metadata |-> MapOf(NonceKey, JNumber(MaxNum))] :
       ops \in OperationLists}
    \cup {[operations |-> ops, metadata |-> md] :
            ops \in GoodLists, md \in NonceMaps}

\* Public keys and signatures a caller may hand to derive and combine.
KeyBytes ==
    {PublicKey(k) : k \in Keys}
        \cup {[len |-> PublicKeySize - 1, key |-> "keyA"]}

SignatureBytes(payload) ==
    {Sign(k, payload.bytes) : k \in Keys}
        \cup {Sign("keyA", PrepareSignerMessage("other", payload.bytes.message)),
              [len |-> SignatureSize + 1, signer |-> "keyA",
               message |-> payload.bytes]}

\* The signature lists a caller may hand to combine for a signing payload.
SignatureLists(payload) ==
    {<<>>}
        \cup {<<[public_key |-> pk, bytes |-> sg]>> :
                pk \in KeyBytes, sg \in SignatureBytes(payload)}
        \cup {[i \in 1..n |-> [public_key |-> PublicKey("keyA"),
                               bytes |-> Sign("keyA", payload.bytes)]] :
                n \in 2..MaxSigs}

\* A signing payload over nothing, for requests that follow no payloads call.
NoPayload ==
    [address |-> "", bytes |-> PrepareSignerMessage(SignatureContext, NoBody),
     signature_type |-> Ed25519]

\* Texts a caller may hand in that no endpoint produced.
StrayDocuments == {InvalidJSON, EmptyJSON}

OptionsInputs ==
    {[present |-> FALSE, map |-> NoMap], [present |-> TRUE, map |-> NoMap],
     [present |-> TRUE, map |-> MapOf(OptionsIDKey, JNumber(MaxNum))]}
        \cup {[present |-> TRUE, map |-> MapOf(OptionsIDKey, JString(a))] :
                a \in AddressTexts}

\* What the node answers: a failure, or a nonce.
NodeAnswers ==
    {[ok |-> FALSE, nonce |-> 0]} \cup {[ok |-> TRUE, nonce |-> n] : n \in Numbers}


\* Transaction texts no payloads call produced: a method without body, a
\* burn without fee, a fee amount that is no quantity.
StrayTransactions ==
    {JSONMarshalTx([nonce |-> 0, fee |-> NoFee, method |-> MethodTransfer,
                    body |-> NoBody]),
     JSONMarshalTx([nonce |-> MaxNum, fee |-> NoFee, method |-> MethodBurn,
                    body |-> CBORBurn(1)]),
     [json |-> "Transaction", nonce |-> 0,
      fee |-> [present |-> TRUE, amount |-> Minus1, gas |-> 0],
      method |-> MethodBurn, body |-> CBORBurn(1)]}

\* The lists handed to preprocess: it reads the length and one address.
PreprocessInputs ==
    {ops \in ShapeLists : Len(ops) <= 2}
        \cup {<<FeeOp(OpTransfer, a, SubAccount(SubAccountGeneral), Minus1,
                      OasisCurrency, NoMap)>> : a \in AddressTexts}

\* The signing payload of a transaction text, as the signer computes it.
PayloadOf(doc) ==
    [address |-> "",
     bytes |-> PrepareSignerMessage(SignatureContext,
                                    CBORMarshalTx(JSONUnmarshalTx(doc).tx)),
     signature_type |-> Ed25519]

---------------------------------------------------------------------------
(* The state machine: one action per endpoint.  A caller starts with any   *)
(* endpoint and carries results forward along                              *)
(*   preprocess -> metadata -> payloads -> combine -> parse, hash, submit. *)

NoHeld ==
    [operations |-> <<>>, metadata |-> NoMap, unsigned |-> InvalidJSON,
     payload |-> NoPayload, signed |-> InvalidJSON,
     signature |-> [public_key |-> ZeroPublicKey, bytes |-> ZeroSignature]]

Init ==
    /\ endpoint = "none"
    /\ request = [network_identifier |-> OasisNetwork]
    /\ response = [err |-> NoError]
    /\ trace = <<>>
    /\ held = NoHeld

Succeeded(ep) == endpoint = ep /\ response.err = NoError

\* The handler ran on req and returned r.
Call(ep, req, r) ==
    /\ endpoint' = ep
    /\ request' = req
    /\ response' = r.resp
    /\ trace' = r.work

Derive ==
    /\ endpoint = "none"
    /\ \E ni \in Networks, pk \in KeyBytes :
         LET req == [network_identifier |-> ni, public_key |-> pk]
         IN  Call("derive", req, ConstructionDerive(req))
    /\ UNCHANGED held

Preprocess ==
    /\ endpoint = "none"
    /\ \E ni \in Networks, ops \in PreprocessInputs :
         LET req == [network_identifier |-> ni, operations |-> ops]
         IN  Call("preprocess", req, ConstructionPreprocess(req))
    /\ UNCHANGED held

Metadata ==
    /\ \/ endpoint = "none"
       \/ Succeeded("preprocess")
    /\ \E ni \in Networks, node \in NodeAnswers,
          opts \in IF endpoint = "none" THEN OptionsInputs
                   ELSE {response.options} :
         LET req == [network_identifier |-> ni, options |-> opts, node |-> node]
         IN  Call("metadata", req, ConstructionMetadata(req))
    /\ UNCHANGED held

Payloads ==
    /\ \/ endpoint = "none"
       \/ Succeeded("metadata")
    /\ \E ni \in Networks,
          in \in IF endpoint = "none" THEN PayloadsInputs
                 ELSE {[operations |-> ops, metadata |-> response.metadata] :
                         ops \in GoodLists} :
         LET req == [network_identifier |-> ni, operations |-> in.operations,
                     metadata |-> in.metadata]
             r == ConstructionPayloads(req)
         IN  /\ Call("payloads", req, r)
             /\ held' = IF r.resp.err # NoError THEN held
                        ELSE [held EXCEPT
                                !.operations = req.operations,
                                !.metadata = req.metadata,
                                !.unsigned = r.resp.unsigned_transaction,
                                !.payload = r.resp.payloads[1]]

Combine ==
    /\ \/ endpoint = "none"
       \/ Succeeded("payloads")
    /\ \E ni \in Networks,
          doc \in IF endpoint = "none"
                  THEN StrayDocuments \cup StrayTransactions
                  ELSE {response.unsigned_transaction} :
         \E sigs \in SignatureLists(IF endpoint = "none" THEN PayloadOf(doc)
                                    ELSE response.payloads[1]) :
           LET req == [network_identifier |-> ni, unsigned_transaction |-> doc,
                       signatures |-> sigs]
               r == ConstructionCombine(req)
           IN  /\ Call("combine", req, r)
               /\ held' = IF r.resp.err # NoError THEN held
                          ELSE [held EXCEPT
                                  !.unsigned = doc,
                                  !.signed = r.resp.signed_transaction,
                                  !.signature = sigs[1]]

Parse ==
    /\ \/ endpoint = "none"
       \/ Succeeded("payloads")
       \/ Succeeded("combine")
    /\ \E ni \in Networks, signed \in BOOLEAN,
          doc \in CASE endpoint = "none" ->
                         StrayDocuments \cup StrayTransactions
                    [] endpoint = "payloads" -> {response.unsigned_transaction}
                    [] endpoint = "combine" -> {response.signed_transaction} :
         LET req == [network_identifier |-> ni, signed |-> signed,
                     transaction |-> doc]
         IN  Call("parse", req, ConstructionParse(req))
    /\ UNCHANGED held

Hash ==
    /\ \/ endpoint = "none"
       \/ Succeeded("combine")
    /\ \E ni \in Networks,
          doc \in IF endpoint = "none"
                  THEN StrayDocuments \cup StrayTransactions
                  ELSE {response.signed_transaction} :
         LET req == [network_identifier |-> ni, signed_transaction |-> doc]
         IN  Call("hash", req, ConstructionHash(req))
    /\ UNCHANGED held

Submit ==
    /\ \/ endpoint = "none"
       \/ Succeeded("combine")
    /\ \E ni \in Networks, ok \in BOOLEAN,
          doc \in IF endpoint = "none"
                  THEN StrayDocuments \cup StrayTransactions
                  ELSE {response.signed_transaction} :
         LET req == [network_identifier |-> ni, signed_transaction |-> doc,
                     node |-> [ok |-> ok, nonce |-> 0]]
         IN  Call("submit", req, ConstructionSubmit(req))
    /\ UNCHANGED held

Next ==
    \/ Derive
    \/ Preprocess
    \/ Metadata
    \/ Payloads
    \/ Combine
    \/ Parse
    \/ Hash
    \/ Submit

Spec == Init /\ [][Next]_vars

---------------------------------------------------------------------------
(* Vocabulary of the properties. *)

NetworkOK == request.network_identifier = OasisNetwork

\* The shape of a list after the fee operation: count, types and
\* sub-account tags, nothing else.
TailShape(ops) ==
    [i \in 1..(Len(ops) - 1) |->
       <<ops[i + 1].type,
         IF ops[i + 1].account.sub_account.present
         THEN ops[i + 1].account.sub_account.address ELSE "none">>]

ShapeOfPattern(p) ==
    CASE p = "transfer" -> <<<<OpTransfer, SubAccountGeneral>>,
                             <<OpTransfer, SubAccountGeneral>>>>
      [] p = "burn" -> <<<<OpBurn, SubAccountGeneral>>>>
      [] p = "add_escrow" -> <<<<OpTransfer, SubAccountGeneral>>,
                               <<OpTransfer, SubAccountEscrow>>>>
      [] p = "reclaim_escrow" -> <<<<OpTransfer, SubAccountEscrow>>>>

HasShape(ops, p) == Len(ops) >= 1 /\ TailShape(ops) = ShapeOfPattern(p)

MethodOfPattern(p) ==
    CASE p = "transfer" -> MethodTransfer
      [] p = "burn" -> MethodBurn
      [] p = "add_escrow" -> MethodAddEscrow
      [] p = "reclaim_escrow" -> MethodReclaimEscrow

\* A payloads call on a valid network whose nonce metadata is a number.
PayloadsCalled ==
    /\ endpoint = "payloads"
    /\ NetworkOK
    /\ NonceKey \in DOMAIN request.metadata
    /\ request.metadata[NonceKey].t = "number"

\* The operation list with the address of the fee payer, in the fee
\* operation and in the debit that must equal it, replaced by the
\* placeholder.
WithPlaceholder(ops) ==
    [i \in 1..Len(ops) |->
       IF i = 1 \/ (i = 2 /\ ~HasShape(ops, "reclaim_escrow"))
       THEN [ops[i] EXCEPT !.account.address = FromPlaceholder]
       ELSE ops[i]]

\* A parse call, unsigned, on the transaction the last payloads call made.
ParsedUnsignedOfPayloads ==
    /\ endpoint = "parse"
    /\ NetworkOK
    /\ ~request.signed
    /\ held.operations # <<>>
    /\ request.transaction = held.unsigned

\* An amount value written the way parse writes it: a debit is a minus
\* sign and a decimal number without leading zeros, a credit the number.
CanonicalDebit(v) ==
    /\ BigIntUnmarshalText(v).ok
    /\ BigIntUnmarshalText(v).val <= 0
    /\ v = <<"-">> \o NatString(0 - BigIntUnmarshalText(v).val)

CanonicalCredit(v) ==
    /\ BigIntUnmarshalText(v).ok
    /\ BigIntUnmarshalText(v).val >= 0
    /\ v = NatString(BigIntUnmarshalText(v).val)

\* A request written the way parse writes its answer: whole numbers for
\* nonce and gas, gas given, canonical amount values, declared currencies.
CanonicalRequest(ops, md) ==
    /\ ~md[NonceKey].half
    /\ FeeGasKey \in DOMAIN ops[1].metadata
    /\ ~ops[1].metadata[FeeGasKey].half
    /\ \A i \in 1..Len(ops) :
         /\ ops[i].amount.currency \in Currencies
         /\ IF i = 3 THEN CanonicalCredit(ops[i].amount.value)
            ELSE CanonicalDebit(ops[i].amount.value)

\* The addresses a pattern decodes: the credit of a transfer, the escrow
\* account of add-escrow and of reclaim-escrow.
DecodedAddresses(ops) ==
    IF HasShape(ops, "transfer") \/ HasShape(ops, "add_escrow")
    THEN {ops[3].account.address}
    ELSE IF HasShape(ops, "reclaim_escrow") THEN {ops[2].account.address}
    ELSE {}

WellFormedAddress(text) == AddressUnmarshalText(text).ok

---------------------------------------------------------------------------
(* The claims. *)

\* C1 (as claimed, for requests in canonical form): parsing the unsigned
\* transaction that payloads made of an accepted operation list gives the
\* list back, the fee payer's address replaced by the placeholder, and the
\* nonce of the request.
C1_RoundTrip ==
    (ParsedUnsignedOfPayloads
       /\ CanonicalRequest(held.operations, held.metadata)) =>
        /\ response.err = NoError
        /\ response.operations = WithPlaceholder(held.operations)
        /\ response.metadata = MapOf(NonceKey, held.metadata[NonceKey])

\* C1, what holds: the round trip of canonical requests whose decoded
\* addresses are well-formed.
C1_RoundTripWellFormed ==
    (ParsedUnsignedOfPayloads
       /\ CanonicalRequest(held.operations, held.metadata)
       /\ \A a \in DecodedAddresses(held.operations) : WellFormedAddress(a)) =>
        /\ response.err = NoError
        /\ response.operations = WithPlaceholder(held.operations)
        /\ response.metadata = MapOf(NonceKey, held.metadata[NonceKey])


\* The method a payloads response carries in its unsigned transaction.
ProducedMethod == response.unsigned_transaction.method

\* The fee operation passes its checks.
ValidFee(ops) ==
    /\ ops[1].type = OpTransfer
    /\ ops[1].account.sub_account = SubAccount(SubAccountGeneral)
    /\ ops[1].amount.currency.Symbol = OasisCurrency.Symbol
    /\ BigIntUnmarshalText(ops[1].amount.value).ok
    /\ BigIntUnmarshalText(ops[1].amount.value).val <= 0
    /\ FeeGasKey \in DOMAIN ops[1].metadata =>
         ops[1].metadata[FeeGasKey].t = "number"

\* The value of an amount string, and whether an amount is a debit (at
\* most zero) or a credit (at least zero) in the currency of the symbol.
ValueOf(amount) == BigIntUnmarshalText(amount.value).val

IsDebitIn(amount, currency) ==
    /\ amount.currency.Symbol = currency.Symbol
    /\ BigIntUnmarshalText(amount.value).ok
    /\ ValueOf(amount) <= 0

IsCreditIn(amount, currency) ==
    /\ amount.currency.Symbol = currency.Symbol
    /\ BigIntUnmarshalText(amount.value).ok
    /\ ValueOf(amount) >= 0

\* The amounts and addresses after the fee are valid for the pattern.
ValidFields(ops, p) ==
    CASE p = "transfer" \/ p = "add_escrow" ->
           /\ ops[2].account.address = ops[1].account.address
           /\ IsDebitIn(ops[2].amount, OasisCurrency)
           /\ IsCreditIn(ops[3].amount, OasisCurrency)
           /\ 0 - ValueOf(ops[2].amount) = ValueOf(ops[3].amount)
           /\ WellFormedAddress(ops[3].account.address)
      [] p = "burn" ->
           /\ ops[2].account.address = ops[1].account.address
           /\ IsDebitIn(ops[2].amount, OasisCurrency)
      [] p = "reclaim_escrow" ->
           /\ IsDebitIn(ops[2].amount, PoolShare)
           /\ WellFormedAddress(ops[2].account.address)

SubmitDecodes == JSONUnmarshalSigned(request.signed_transaction).ok

\* C4 (as claimed): submit decodes before it broadcasts: a text that does
\* not decode fails with MalformedValue and SubmitTx is not invoked; when
\* SubmitTx is invoked the text decodes, and its failure gives
\* UnableToSubmitTx.
C4_ValidateBeforeSubmit ==
    (endpoint = "submit" /\ NetworkOK) =>
        /\ ~SubmitDecodes =>
             /\ response.err = ErrMalformedValue
             /\ \A i \in DOMAIN trace : trace[i] # "SubmitTx"
        /\ (\E i \in DOMAIN trace : trace[i] = "SubmitTx") => SubmitDecodes
        /\ (SubmitDecodes /\ ~request.node.ok) =>
             response.err = ErrUnableToSubmitTx

\* C5 (as claimed): payloads fails with MalformedValue whenever an address
\* it has to decode is not well-formed.
C5_MalformedAddressRejected ==
    (PayloadsCalled
       /\ \E a \in DecodedAddresses(request.operations) :
            ~WellFormedAddress(a)) =>
        response.err = ErrMalformedValue


\* The failure every endpoint returns for a network it does not serve.
NetworkFailure == [err |-> ErrNetwork]

\* C6: in every endpoint the validation of the network identifier is the
\* first step, and when it fails the endpoint returns that error having
\* done nothing else: no input decoded, no GetNextNonce, no SubmitTx.
C6_ValidationFirst ==
    endpoint # "none" =>
        /\ Len(trace) >= 1
        /\ trace[1] = "validate"
        /\ ~NetworkOK => (response = NetworkFailure /\ trace = <<"validate">>)

\* C6 witness: submit was called for another network with a signed
\* transaction that decodes, and the node was not asked.
C6_Witness ==
    /\ endpoint = "submit"
    /\ ~NetworkOK
    /\ SubmitDecodes
    /\ request.node.ok
    /\ response = NetworkFailure

\* The signatures of a combine request are one, with a public key and a
\* raw signature of the fixed lengths.
OneWellFormedSignature ==
    /\ Len(request.signatures) = 1
    /\ request.signatures[1].public_key.len = PublicKeySize
    /\ request.signatures[1].bytes.len = SignatureSize

\* C7: combine fails with MalformedValue when the signatures are not
\* exactly one, or the one's public key or raw signature has not the fixed
\* length; no signed transaction is returned.
C7_CombineRejects ==
    (endpoint = "combine" /\ NetworkOK /\ ~OneWellFormedSignature) =>
        /\ response = [err |-> ErrMalformedValue]
        /\ held.signed = NoHeld.signed

\* C7 witness: combine refused two signatures for a transaction that
\* decodes.
C7_Witness ==
    /\ endpoint = "combine"
    /\ NetworkOK
    /\ Len(request.signatures) = 2
    /\ JSONUnmarshalTx(request.unsigned_transaction).ok
    /\ response = [err |-> ErrMalformedValue]

\* A parse call, signed, on the signed transaction the last combine made.
ParsedSignedOfCombine ==
    /\ endpoint = "parse"
    /\ NetworkOK
    /\ request.signed
    /\ held.signed # NoHeld.signed
    /\ request.transaction = held.signed

\* The signature handed to combine is one the public key handed with it
\* made over the context and the canonical bytes of the unsigned
\* transaction.
SignatureValid ==
    Verify(held.signature.public_key, SignatureContext,
           CBORMarshalTx(JSONUnmarshalTx(held.unsigned).tx),
           held.signature.bytes)

\* The response is the one parse gives for the unsigned transaction, the
\* placeholder replaced by the address of the public key, which is the
\* only signer.
SameAsUnsigned ==
    LET u == ConstructionParse([network_identifier |-> OasisNetwork,
                                signed |-> FALSE,
                                transaction |-> held.unsigned]).resp
        from == AddressString(NewAddress(held.signature.public_key))
    IN  IF u.err # NoError THEN response = u
        ELSE response =
               [err |-> NoError,
                operations |->
                  [i \in 1..Len(u.operations) |->
                     IF u.operations[i].account.address = FromPlaceholder
                     THEN [u.operations[i] EXCEPT !.account.address = from]
                     ELSE u.operations[i]],
                signers |-> <<from>>,
                metadata |-> u.metadata]

\* C8 (as claimed): the signed transaction of a successful combine opens:
\* parse, signed, does not fail with MalformedValue and recovers the
\* transaction that was combined.
C8_CombinedVerifies ==
    ParsedSignedOfCombine =>
        /\ response.err # ErrMalformedValue
        /\ SameAsUnsigned

\* C8 (amended): it opens when the signature is valid for the public key
\* and the transaction, and parse then answers as for the unsigned
\* transaction under the signer's address; a signature that is only
\* well-formed makes parse fail with MalformedValue.
C8_ValidSignatureVerifies ==
    ParsedSignedOfCombine =>
        IF SignatureValid THEN SameAsUnsigned
        ELSE response = [err |-> ErrMalformedValue]

\* C8 witness: the signed transaction of a payloads transaction, validly
\* signed, was parsed into operations.
C8_Witness ==
    /\ ParsedSignedOfCombine
    /\ SignatureValid
    /\ held.operations # <<>>
    /\ response.err = NoError

\* The two amounts of a transfer or add-escrow request both read as
\* numbers.
BothNumbers(ops) ==
    /\ BigIntUnmarshalText(ops[2].amount.value).ok
    /\ BigIntUnmarshalText(ops[3].amount.value).ok

\* They break the sign convention: the debit above zero, the credit below
\* zero, or the magnitudes unequal.
BreaksSignConvention(ops) ==
    \/ ValueOf(ops[2].amount) > 0
    \/ ValueOf(ops[3].amount) < 0
    \/ 0 - ValueOf(ops[2].amount) # ValueOf(ops[3].amount)

\* C9: for transfer and add-escrow a request whose debit and credit break
\* the sign convention fails with MalformedValue, and the body of a
\* transaction that is made carries the common magnitude.
C9_SignConvention ==
    (PayloadsCalled
       /\ (HasShape(request.operations, "transfer")
             \/ HasShape(request.operations, "add_escrow"))) =>
        /\ (BothNumbers(request.operations)
              /\ BreaksSignConvention(request.operations)) =>
             response = [err |-> ErrMalformedValue]
        /\ response.err = NoError =>
             /\ BothNumbers(request.operations)
             /\ ~BreaksSignConvention(request.operations)
             /\ response.unsigned_transaction.body.tokens
                  = ValueOf(request.operations[3].amount)

\* C9 witness: an add-escrow request with a debit and a credit of
\* different magnitudes, valid otherwise, was refused.
C9_Witness ==
    /\ PayloadsCalled
    /\ HasShape(request.operations, "add_escrow")
    /\ ValidFee(request.operations)
    /\ request.operations[2].account.address
         = request.operations[1].account.address
    /\ IsDebitIn(request.operations[2].amount, OasisCurrency)
    /\ IsCreditIn(request.operations[3].amount, OasisCurrency)
    /\ 0 - ValueOf(request.operations[2].amount)
         # ValueOf(request.operations[3].amount)
    /\ response = [err |-> ErrMalformedValue]

\* The amounts of a request with the currency each must carry: the fee,
\* and the debits and credits of the shape.
RoleAmounts(ops) ==
    {<<ops[1].amount, OasisCurrency>>}
        \cup (IF HasShape(ops, "transfer") \/ HasShape(ops, "add_escrow")
              THEN {<<ops[2].amount, OasisCurrency>>,
                    <<ops[3].amount, OasisCurrency>>}
              ELSE IF HasShape(ops, "burn")
              THEN {<<ops[2].amount, OasisCurrency>>}
              ELSE IF HasShape(ops, "reclaim_escrow")
              THEN {<<ops[2].amount, PoolShare>>}
              ELSE {})

OtherCurrency(c) == IF c = OasisCurrency THEN PoolShare ELSE OasisCurrency

\* C10: a request in which the fee, a debit or a credit carries the other
\* currency than the one of its role fails with MalformedValue; in a
\* request that succeeds every amount carries the symbol of its role.
C10_CurrencyEnforced ==
    (PayloadsCalled /\ Len(request.operations) >= 1) =>
        /\ (\E r \in RoleAmounts(request.operations) :
              r[1].currency = OtherCurrency(r[2])) =>
             response = [err |-> ErrMalformedValue]
        /\ response.err = NoError =>
             \A r \in RoleAmounts(request.operations) :
               r[1].currency.Symbol = r[2].Symbol

\* C10 witness: a reclaim-escrow request whose debit is in the native
\* token, valid otherwise, was refused.
C10_Witness ==
    /\ PayloadsCalled
    /\ HasShape(request.operations, "reclaim_escrow")
    /\ ValidFee(request.operations)
    /\ request.operations[2].amount.currency = OasisCurrency
    /\ CanonicalDebit(request.operations[2].amount.value)
    /\ WellFormedAddress(request.operations[2].account.address)
    /\ response = [err |-> ErrMalformedValue]

\* C11: a payloads response that succeeds holds one signing payload, for
\* the address of the fee operation, whose bytes are the signature context
\* followed by the canonical encoding of the transaction that the
\* unsigned transaction of the response decodes to.
C11_SinglePayload ==
    (PayloadsCalled /\ response.err = NoError) =>
        /\ Len(response.payloads) = 1
        /\ response.payloads[1].address
             = request.operations[1].account.address
        /\ response.payloads[1].signature_type = Ed25519
        /\ JSONUnmarshalTx(response.unsigned_transaction).ok
        /\ response.payloads[1].bytes
             = [context |-> SignatureContext,
                message |->
                  CBORMarshalTx(
                    JSONUnmarshalTx(response.unsigned_transaction).tx)]

\* C11 witness: a reclaim escrow from an escrow account that is not the
\* fee payer succeeded, with its payload.
C11_Witness ==
    /\ PayloadsCalled
    /\ response.err = NoError
    /\ HasShape(request.operations, "reclaim_escrow")
    /\ WellFormedAddress(request.operations[2].account.address)
    /\ request.operations[2].account.address
         # request.operations[1].account.address
    /\ response.payloads[1].address = request.operations[1].account.address

\* The debit after the fee names another address than the fee operation.
DebitNotFeePayer(ops) ==
    ops[2].account.address # ops[1].account.address

\* C12: a transfer, burn or add escrow whose debit names another address
\* than the fee operation fails with MalformedValue; a reclaim escrow,
\* valid otherwise, whose escrow account is not the fee payer succeeds
\* with method ReclaimEscrow, the escrow account in the body and the fee
\* payer as signer.
C12_SignerMatch ==
    (PayloadsCalled /\ Len(request.operations) >= 2) =>
        /\ ((HasShape(request.operations, "transfer")
               \/ HasShape(request.operations, "burn")
               \/ HasShape(request.operations, "add_escrow"))
              /\ DebitNotFeePayer(request.operations)) =>
             response = [err |-> ErrMalformedValue]
        /\ (HasShape(request.operations, "reclaim_escrow")
              /\ ValidFee(request.operations)
              /\ ValidFields(request.operations, "reclaim_escrow")
              /\ DebitNotFeePayer(request.operations)) =>
             /\ response.err = NoError
             /\ ProducedMethod = MethodReclaimEscrow
             /\ AddressString(response.unsigned_transaction.body.account)
                  = request.operations[2].account.address
             /\ response.payloads[1].address
                  = request.operations[1].account.address

\* C12 witness: a reclaim escrow from the escrow account of another
\* address than the fee payer's produced its transaction.
C12_Witness ==
    /\ PayloadsCalled
    /\ HasShape(request.operations, "reclaim_escrow")
    /\ ValidFields(request.operations, "reclaim_escrow")
    /\ DebitNotFeePayer(request.operations)
    /\ response.err = NoError
    /\ ProducedMethod = MethodReclaimEscrow
    /\ response.unsigned_transaction.body.account
         # AddressUnmarshalText(request.operations[1].account.address).addr

\* The signed transaction a parse request holds, as it decodes, and the
\* transaction parse works on: the one in the blob of a signed
\* transaction, or the one the text of an unsigned transaction decodes to.
SignedOfRequest == JSONUnmarshalSigned(request.transaction).st

TransactionOfRequest ==
    IF request.signed THEN SignedOfRequest.blob.tx
    ELSE JSONUnmarshalTx(request.transaction).tx

\* The signature of the signed transaction of the request is one its
\* public key made over the context and the blob.
RequestVerifies ==
    /\ SignedOfRequest.signature.signer = SignedOfRequest.public_key.key
    /\ SignedOfRequest.signature.message
         = [context |-> SignatureContext, message |-> SignedOfRequest.blob]

\* C13: operation 0 of every parse response is the fee operation: type
\* Transfer, sub-account general, the native token, minus the fee amount
\* and the fee gas as metadata.  For a signed transaction the signature
\* verifies, and the fee payer and the one signer are the address of the
\* embedded public key; for an unsigned one the fee payer is the
\* placeholder and there is no signer.  A signed transaction whose
\* signature does not verify gives MalformedValue and nothing else.
C13_FeeOperation ==
    (endpoint = "parse" /\ NetworkOK) =>
        /\ response.err = NoError =>
             LET op == response.operations[1]
                 fee == TransactionOfRequest.fee
             IN  /\ op.operation_identifier.index = 0
                 /\ op.type = OpTransfer
                 /\ op.account.sub_account = SubAccount(SubAccountGeneral)
                 /\ op.amount.currency = OasisCurrency
                 /\ BigIntUnmarshalText(op.amount.value).ok
                 /\ BigIntUnmarshalText(op.amount.value).val
                      = 0 - (IF fee.present THEN fee.amount ELSE 0)
                 /\ op.metadata
                      = MapOf(FeeGasKey,
                              JNumber(IF fee.present THEN fee.gas ELSE 0))
                 /\ IF request.signed
                    THEN /\ RequestVerifies
                         /\ op.account.address
                              = AddressString(
                                  NewAddress(SignedOfRequest.public_key))
                         /\ response.signers = <<op.account.address>>
                    ELSE /\ op.account.address = FromPlaceholder
                         /\ response.signers = <<>>
        /\ (request.signed /\ ~RequestVerifies) =>
             response = [err |-> ErrMalformedValue]

\* C13 witness: a signed transaction without fee, its signature valid,
\* was parsed: the fee operation is of the signer's address and of "-0".
C13_Witness ==
    /\ endpoint = "parse"
    /\ NetworkOK
    /\ request.signed
    /\ response.err = NoError
    /\ ~TransactionOfRequest.fee.present
    /\ response.operations[1].amount.value = <<"-", "0">>
    /\ response.operations[1].account.address # FromPlaceholder
    /\ response.signers = <<response.operations[1].account.address>>

\* C14: the unsigned transaction of a payloads response that succeeds
\* carries the nonce of the request metadata (its whole part, when the
\* number is given with a fraction), as fee amount the magnitude of the
\* amount of the fee operation, which is not above zero, and as gas the
\* fee_gas metadata of the fee operation (its whole part), or the default
\* when there is none.  A nonce that is missing or not a number, a fee_gas
\* that is not a number and a fee amount above zero fail with
\* MalformedValue.
C14_NonceFeeGas ==
    (endpoint = "payloads" /\ NetworkOK) =>
        LET md == request.metadata
            ops == request.operations
        IN  /\ response.err = NoError =>
                 LET tx == response.unsigned_transaction
                     amount == BigIntUnmarshalText(ops[1].amount.value)
                 IN  /\ NonceKey \in DOMAIN md
                     /\ md[NonceKey].t = "number"
                     /\ tx.nonce = md[NonceKey].num
                     /\ tx.fee.present
                     /\ amount.ok
                     /\ amount.val <= 0
                     /\ tx.fee.amount = NatString(0 - amount.val)
                     /\ IF FeeGasKey \in DOMAIN ops[1].metadata
                        THEN /\ ops[1].metadata[FeeGasKey].t = "number"
                             /\ tx.fee.gas = ops[1].metadata[FeeGasKey].num
                        ELSE tx.fee.gas = DefaultGas
            /\ (NonceKey \notin DOMAIN md \/ md[NonceKey].t # "number") =>
                 response = [err |-> ErrMalformedValue]
            /\ (/\ Len(ops) >= 1
                /\ \/ /\ FeeGasKey \in DOMAIN ops[1].metadata
                      /\ ops[1].metadata[FeeGasKey].t # "number"
                   \/ /\ BigIntUnmarshalText(ops[1].amount.value).ok
                      /\ BigIntUnmarshalText(ops[1].amount.value).val > 0) =>
                 response = [err |-> ErrMalformedValue]

\* C14 witness: a request whose fee operation gives no fee_gas succeeded,
\* and its transaction carries the default gas and the fee of the request.
C14_Witness ==
    /\ PayloadsCalled
    /\ response.err = NoError
    /\ FeeGasKey \notin DOMAIN request.operations[1].metadata
    /\ response.unsigned_transaction.fee.gas = DefaultGas
    /\ response.unsigned_transaction.fee.amount = <<"1">>
    /\ response.unsigned_transaction.nonce = request.metadata[NonceKey].num

\* The number of GetNextNonce calls the last handler made.
GetNextNonceCalls ==
    Cardinality({i \in 1..Len(trace) : trace[i] = "GetNextNonce"})

\* The options of a metadata request name an account: the map is there
\* and holds under "id" a string that is a well-formed address.
OptionsNameAccount ==
    /\ request.options.present
    /\ OptionsIDKey \in DOMAIN request.options.map
    /\ request.options.map[OptionsIDKey].t = "string"
    /\ WellFormedAddress(request.options.map[OptionsIDKey].str)

\* C15: metadata asks the node for the nonce at most once.  Options that
\* name no account fail with InvalidAccountAddress and the node is not
\* asked; a lookup that fails gives UnableToGetNextNonce after one call;
\* a lookup that succeeds gives the nonce of the node under "nonce",
\* after one call.
C15_OneNonceLookup ==
    (endpoint = "metadata" /\ NetworkOK) =>
        /\ GetNextNonceCalls <= 1
        /\ ~OptionsNameAccount =>
             /\ response = [err |-> ErrInvalidAccountAddress]
             /\ GetNextNonceCalls = 0
        /\ (OptionsNameAccount /\ ~request.node.ok) =>
             /\ response = [err |-> ErrUnableToGetNextNonce]
             /\ GetNextNonceCalls = 1
        /\ (OptionsNameAccount /\ request.node.ok) =>
             /\ response = [err |-> NoError,
                            metadata |->
                              MapOf(NonceKey, JNumber(request.node.nonce))]
             /\ GetNextNonceCalls = 1

\* C15 witness: the node failed to give the nonce of a well-formed
\* address, and was asked once.
C15_Witness ==
    /\ endpoint = "metadata"
    /\ NetworkOK
    /\ OptionsNameAccount
    /\ ~request.node.ok
    /\ response = [err |-> ErrUnableToGetNextNonce]
    /\ trace = <<"validate", "decode", "GetNextNonce">>

==========================================================================
